---- MODULE Spec2Model ----
(***************************************************************************)
(* Model of src/app.py: the RAGProcessor class (preprocess_document,       *)
(* store_embeddings, retrieve_context, query_llm) and the Streamlit script *)
(* that drives it.  One script run (a rerun caused by a button click) is   *)
(* one action.  Text is a sequence of one-character strings.  The          *)
(* libraries the code calls (the sentence encoder, the FAISS flat index,   *)
(* the file parsers, the remote model client) are modelled by what the     *)
(* code relies on: a deterministic encoder, an exact L2 top-k search that  *)
(* pads missing results with label -1, and calls that may raise.           *)
(***************************************************************************)
EXTENDS Integers, Sequences, FiniteSets

\* ------------------------------------------------------------------ bounds
\* Longest generated text has MaxFull full slices plus one character.
MaxFull == 5
\* Batch sizes 1..MaxBatch (and the default) are tried on store_embeddings.
MaxBatch == 3

\* ------------------------------------------------------- program constants
ChunkSize == 500
TopK == 5
DefaultBatchSize == 32
MaxMB == 2
BytesPerMB == 1024 * 1024

\* ------------------------------------------------------------ Python values
Min(a, b) == IF a < b THEN a ELSE b

\* s[i:j] for 0 <= i <= j (0-based, end exclusive, clipped at len(s)).
PySlice(s, i, j) == SubSeq(s, i + 1, Min(j, Len(s)))

\* list(range(0, hi, step))
PyRange0(hi, step) == [k \in 1..((hi + step - 1) \div step) |-> (k - 1) * step]

\* s[i] with Python's negative indexing; PyIndexOk is FALSE where it raises
\* IndexError.
PyIndexOk(s, i) == (-Len(s)) <= i /\ i < Len(s)
PyIndex(s, i) == IF i >= 0 THEN s[i + 1] ELSE s[Len(s) + i + 1]

\* Optional values: None, or a list.
None == [some |-> FALSE, val |-> <<>>]
Some(x) == [some |-> TRUE, val |-> x]
NoName == "<None>"

\* --------------------------------------------------------------- characters
Whitespace == {" ", "\n", "\t"}
IsSpace(c) == c \in Whitespace

\* bool(chunk.strip()): the chunk has a character that is not whitespace.
StripNonEmpty(c) == \E k \in 1..Len(c) : ~IsSpace(c[k])

\* " ".join(ss)
RECURSIVE JoinSpace(_)
JoinSpace(ss) ==
  IF ss = <<>> THEN <<>>
  ELSE IF Len(ss) = 1 THEN Head(ss)
  ELSE Head(ss) \o <<" ">> \o JoinSpace(Tail(ss))

\* ------------------------------------------------------------ input texts
\* The text a parsing library extracts from a file, described by its length
\* and a pattern ("blank", "solid" or "gaps") giving the character at every
\* (0-based) position.
CharAt(pat, p) ==
  CASE pat = "blank" -> IF p % 2 = 0 THEN " " ELSE "\n"
    [] pat = "solid" -> IF p < 700 THEN "a" ELSE "b"
    [] OTHER -> IF p \in {0, 2500} THEN "a"
                ELSE IF p \in {999, 1000} THEN "b"
                ELSE IF p % 2 = 0 THEN " " ELSE "\t"

MkText(len, pat) == [p \in 1..len |-> CharAt(pat, p - 1)]

Doc(len, pat) == [len |-> len, pat |-> pat]
OneChunkDoc == Doc(1, "solid")
LongLen == MaxFull * ChunkSize + 1

\* Texts for store_embeddings called directly: lengths around the slice
\* boundaries, whitespace-only slices in the middle and at the end.
StoreDocs ==
  {Doc(len, "solid") : len \in {1, ChunkSize - 1, ChunkSize, ChunkSize + 1,
                                 LongLen - 1, LongLen}}
  \cup {Doc(len, "gaps") : len \in {ChunkSize + 1, 2 * ChunkSize + 1, LongLen}}
  \cup {Doc(0, "blank"), Doc(ChunkSize + 1, "blank")}

\* Texts extracted from the files uploaded through the page.
UploadDocs ==
  {Doc(0, "solid"), Doc(1, "blank"), OneChunkDoc, Doc(ChunkSize + 1, "gaps"),
   Doc(LongLen, "solid")}

Docs == StoreDocs \cup UploadDocs
\* The texts of all documents, built once.
Texts == {<<doc, MkText(doc.len, doc.pat)>> : doc \in Docs}
TextOf(doc) == (CHOOSE t \in Texts : t[1] = doc)[2]

\* ----------------------------------------------------------------- encoder
\* SentenceTransformer.encode on one string: a deterministic vector, here made
\* of the string's first and last characters and its length.
Code(c) == CASE c = "a" -> 1 [] c = "b" -> 2 [] OTHER -> 0
Encode(s) ==
  IF s = <<>> THEN <<0, 0, 0>>
  ELSE <<Code(s[1]), Code(s[Len(s)]), Len(s) % 7>>
EncodeBatch(batch) == [k \in 1..Len(batch) |-> Encode(batch[k])]

\* Squared L2 distance, as IndexFlatL2 reports it.
Sq(x) == x * x
Dist(u, v) == Sq(u[1] - v[1]) + Sq(u[2] - v[2]) + Sq(u[3] - v[3])

\* ------------------------------------------------------------ RAGProcessor
\* RAGProcessor.__init__: the fields the methods read and write.
InitProcessor ==
  [chunks |-> <<>>, embeddings |-> None, faiss_index |-> None,
   last_file_name |-> NoName]

\* st.error messages.
ErrUnsupported == "Unsupported file type. Please upload a PDF, DOCX, or Excel file."
ErrProcessing == "Error processing file"
ErrNoText == "No valid text found in the document."
ErrNoIndex == "No document is indexed. Please upload a file first."
ErrLLM == "Error querying the LLM"
ErrSize == "File size exceeds 2MB. Please upload a smaller file."

\* [text[i:i + 500] for i in range(0, len(text), 500)]
Slices_widthOffByOne(text) ==
  LET offs == PyRange0(Len(text), ChunkSize)
  IN  [k \in 1..Len(offs) |-> PySlice(text, offs[k], offs[k] + ChunkSize - 1)]
Slices(text) ==
  LET offs == PyRange0(Len(text), ChunkSize)
  IN  [k \in 1..Len(offs) |-> PySlice(text, offs[k], offs[k] + ChunkSize)]

\* [chunk for chunk in self.chunks if chunk.strip()]
NonBlankChunks(cs) == SelectSeq(cs, StripNonEmpty)

\* chunks[i:i + batch_size]
Batch_endOffByOne(cs, i, batch_size) == PySlice(cs, i, i + batch_size - 1)
Batch(cs, i, batch_size) == PySlice(cs, i, i + batch_size)

NumBatches(n, batch_size) == (n + batch_size - 1) \div batch_size

\* The loop of store_embeddings over the batches, from offset i with the
\* embeddings gathered so far.  fault = j >= 1 makes the encoder raise on the
\* j-th batch; the list then holds the embeddings of the batches before it.
RECURSIVE EncodeLoop(_, _, _, _, _)
EncodeLoop(cs, batch_size, i, acc, fault) ==
  IF i >= Len(cs) THEN [raised |-> FALSE, embeddings |-> acc]
  ELSE IF fault = (i \div batch_size) + 1 THEN [raised |-> TRUE, embeddings |-> acc]
  ELSE EncodeLoop(cs, batch_size, i + batch_size,
                  acc \o EncodeBatch(Batch(cs, i, batch_size)), fault)

\* faiss.IndexFlatL2(384): an empty index; index.add appends the vectors.
IndexFlatL2 == <<>>
IndexAdd(index, vecs) == index \o vecs

\* store_embeddings(self, text, batch_size).  fault: 0 nothing raises;
\* 1..NumBatches the encoder raises on that batch; NumBatches + 1 the index
\* raises in add.  The result holds the processor as the call leaves it, the
\* value returned (None, or the chunk list), whether an exception left the
\* call, and the messages given to st.error.
store_embeddings(self, text, batch_size, fault) ==
  LET cs == NonBlankChunks(Slices(text))
      loop == EncodeLoop(cs, batch_size, 0, <<>>, fault)
      reset == [self EXCEPT !.chunks = cs, !.faiss_index = Some(IndexFlatL2)]
  IN  IF cs = <<>>
        THEN [self |-> [self EXCEPT !.chunks = cs], ret |-> None,
              raised |-> FALSE, errors |-> {ErrNoText}]
      ELSE IF loop.raised
        THEN [self |-> [reset EXCEPT !.embeddings = Some(loop.embeddings)],
              ret |-> None, raised |-> TRUE, errors |-> {}]
      ELSE IF fault = NumBatches(Len(cs), batch_size) + 1
        THEN [self |-> [reset EXCEPT !.embeddings = Some(loop.embeddings)],
              ret |-> None, raised |-> TRUE, errors |-> {}]
      ELSE [self |-> [reset EXCEPT !.embeddings = Some(loop.embeddings),
                                   !.faiss_index =
                                      Some(IndexAdd(IndexFlatL2, loop.embeddings))],
            ret |-> Some(cs), raised |-> FALSE, errors |-> {}]

\* IndexFlatL2.search(q, k): the labels (0-based positions) of the k stored
\* vectors nearest to q, nearest first; where the index holds fewer than k
\* vectors the remaining labels are -1.  The order among vectors at the same
\* distance is the library's choice: every order is possible.
RECURSIVE Nearest(_, _, _, _)
Nearest(index, q, rest, k) ==
  IF k = 0 THEN {<<>>}
  ELSE IF rest = {} THEN {[j \in 1..k |-> -1]}
  ELSE LET best == {i \in rest : \A j \in rest :
                       Dist(index[i + 1], q) <= Dist(index[j + 1], q)}
       IN  UNION {{<<i>> \o t : t \in Nearest(index, q, rest \ {i}, k - 1)} :
                  i \in best}
Search(index, q, k) == Nearest(index, q, 0..(Len(index) - 1), k)

\* The list index Python reads for label i: a negative label counts from the
\* end of the list.
PyPosition(s, i) == IF i >= 0 THEN i ELSE Len(s) + i

\* retrieve_context(self, query): the set of possible results.  fault makes
\* the encoder or the search raise.  Each result holds the value returned,
\* the labels the search gave, the positions of self.chunks read for them,
\* whether an exception left the call, and the messages given to st.error.
retrieve_context(self, query, fault) ==
  IF ~self.faiss_index.some \/ self.chunks = <<>>
    THEN {[ret |-> <<>>, labels |-> <<>>, picked |-> <<>>, raised |-> FALSE,
           errors |-> {ErrNoIndex}]}
  ELSE IF fault
    THEN {[ret |-> <<>>, labels |-> <<>>, picked |-> <<>>, raised |-> TRUE,
           errors |-> {}]}
  ELSE {IF \A j \in 1..Len(labels) : PyIndexOk(self.chunks, labels[j])
          THEN [ret |-> JoinSpace([j \in 1..Len(labels) |->
                                      PyIndex(self.chunks, labels[j])]),
                labels |-> labels,
                picked |-> [j \in 1..Len(labels) |->
                              PyPosition(self.chunks, labels[j])],
                raised |-> FALSE, errors |-> {}]
          ELSE [ret |-> <<>>, labels |-> labels, picked |-> <<>>,
                raised |-> TRUE, errors |-> {}] :
        labels \in Search(self.faiss_index.val, Encode(query), TopK)}

\* What client.predict does: raise, or return a response object.
NoTextDefault == "No response text available."
Replies ==
  {[raises |-> TRUE, hasChoices |-> FALSE, choices |-> <<>>],
   [raises |-> FALSE, hasChoices |-> FALSE, choices |-> <<>>],
   [raises |-> FALSE, hasChoices |-> TRUE, choices |-> <<>>],
   [raises |-> FALSE, hasChoices |-> TRUE,
    choices |-> <<[hasText |-> FALSE, text |-> ""]>>],
   [raises |-> FALSE, hasChoices |-> TRUE,
    choices |-> <<[hasText |-> TRUE, text |-> "answer"]>>]}

\* query_llm(self, query, context): one call of client.predict with the
\* prompt built from context and query, inside try/except.
query_llm(query, context, reply) ==
  LET prompt == [context |-> context, question |-> query]
      choices == IF reply.hasChoices THEN reply.choices
                 ELSE <<[hasText |-> FALSE, text |-> ""]>>
  IN  IF reply.raises \/ choices = <<>>
        THEN [ret |-> "", errors |-> {ErrLLM}, predicts |-> 1, prompt |-> prompt]
      ELSE [ret |-> IF choices[1].hasText THEN choices[1].text ELSE NoTextDefault,
            errors |-> {}, predicts |-> 1, prompt |-> prompt]

\* ------------------------------------------------------------------- files
Pdf == "application/pdf"
Docx == "application/vnd.openxmlformats-officedocument.wordprocessingml.document"
Xlsx == "application/vnd.openxmlformats-officedocument.spreadsheetml.sheet"
Names == {"a.pdf", "b.docx"}
TypeOf(name) == IF name = "a.pdf" THEN Pdf ELSE Docx
SmallSize == 1024 * 100

\* An uploaded file: its name, MIME type and size in bytes, whether the
\* parsing library can read it, and the text the library extracts.
File(n, t, s, r, d) ==
  [name |-> n, type |-> t, size |-> s, readable |-> r, doc |-> d]
Files ==
  {File(n, TypeOf(n), SmallSize, TRUE, d) : n \in Names, d \in UploadDocs}
  \cup {File("a.pdf", "text/plain", SmallSize, TRUE, OneChunkDoc),
        File("a.pdf", Pdf, SmallSize, FALSE, OneChunkDoc),
        File("a.pdf", Pdf, MaxMB * BytesPerMB, TRUE, OneChunkDoc),
        File("a.pdf", Pdf, MaxMB * BytesPerMB + 1, TRUE, OneChunkDoc)}

\* preprocess_document(self, file): the parser chosen by file.type, inside
\* try/except.
preprocess_document(file) ==
  IF file.type \in {Pdf, Docx, Xlsx}
    THEN IF file.readable
           THEN [ret |-> TextOf(file.doc), errors |-> {}, failed |-> FALSE]
           ELSE [ret |-> <<>>, errors |-> {ErrProcessing}, failed |-> TRUE]
    ELSE [ret |-> <<>>, errors |-> {ErrUnsupported}, failed |-> FALSE]

Queries == {<<"a">>, <<"b", "b">>}

\* ------------------------------------------------------------------- state
VARIABLES
  chunks,          \* rag_processor.chunks
  embeddings,      \* rag_processor.embeddings
  faiss_index,     \* rag_processor.faiss_index: None, or the vectors it holds
  last_file_name,  \* rag_processor.last_file_name
  response,        \* st.session_state.response
  indexed_doc,     \* history: the text of the file that set last_file_name
  run              \* what the last script run (or direct call) did

vars == <<chunks, embeddings, faiss_index, last_file_name, response,
          indexed_doc, run>>
processor == <<chunks, embeddings, faiss_index, last_file_name>>

Self ==
  [chunks |-> chunks, embeddings |-> embeddings, faiss_index |-> faiss_index,
   last_file_name |-> last_file_name]

NoDoc == Doc(0, "blank")

\* The record of a run in which nothing was called.
NoRun(kind) ==
  [kind |-> kind, size |-> 0, doc |-> NoDoc, batch_size |-> 0,
   extracted |-> FALSE, stored |-> FALSE, ret_chunks |-> FALSE,
   failure |-> "none", errors |-> {}, escaped |-> FALSE,
   query |-> <<>>, retrieved |-> FALSE, labels |-> <<>>, picked |-> <<>>,
   context |-> <<>>, predicts |-> 0, prompt_context |-> <<>>]

\* The module-level code of the script at its first run: a new processor in
\* the session state and an empty response.
Init ==
  /\ chunks = InitProcessor.chunks
  /\ embeddings = InitProcessor.embeddings
  /\ faiss_index = InitProcessor.faiss_index
  /\ last_file_name = InitProcessor.last_file_name
  /\ response = ""
  /\ indexed_doc = NoDoc
  /\ run = NoRun("init")

\* file_size = uploaded_file.size / (1024 * 1024); file_size > 2.  The
\* division by a power of two is exact, so this is size > 2 * 1024 * 1024.
SizeExceeds(file) == file.size > MaxMB * BytesPerMB

\* if rag_processor.last_file_name and rag_processor.faiss_index is not None
QueryOffered == last_file_name # NoName /\ faiss_index.some

\* A script run with a file in the uploader and Submit clicked.
SubmitRun(file, fault) ==
  LET big == SizeExceeds(file)
      pre == preprocess_document(file)
      called == ~big /\ pre.ret # <<>>
      st == store_embeddings(Self, pre.ret, DefaultBatchSize, fault)
      ok == called /\ ~st.raised /\ st.ret.some /\ st.ret.val # <<>>
      new == IF called THEN st.self ELSE Self
  IN  /\ chunks' = new.chunks
      /\ embeddings' = new.embeddings
      /\ faiss_index' = new.faiss_index
      /\ last_file_name' = IF ok THEN file.name ELSE last_file_name
      /\ indexed_doc' = IF ok THEN file.doc ELSE indexed_doc
      /\ response' = response
      /\ run' = [NoRun("submit") EXCEPT
                   !.size = file.size,
                   !.doc = IF called THEN file.doc ELSE NoDoc,
                   !.batch_size = IF called THEN DefaultBatchSize ELSE 0,
                   !.extracted = ~big,
                   !.stored = called,
                   !.ret_chunks = ok,
                   !.failure = IF ~big /\ pre.failed THEN "extract"
                               ELSE IF called /\ st.raised THEN "embed"
                               ELSE "none",
                   !.errors = IF big THEN {ErrSize}
                              ELSE IF called THEN st.errors ELSE pre.errors,
                   !.escaped = called /\ st.raised]

\* A script run with a non-empty query typed and Query clicked; the query
\* input and the button exist only when QueryOffered.  The upload part of
\* the script calls nothing in such a run: Submit is not clicked.
QueryRun(query, fault, reply) ==
  /\ QueryOffered
  /\ query # <<>>
  /\ \E r \in retrieve_context(Self, query, fault) :
       LET q == query_llm(query, r.ret, reply)
       IN  /\ response' = IF r.raised THEN response ELSE q.ret
           /\ run' = [NoRun("query") EXCEPT
                        !.failure = IF r.raised /\ fault THEN "retrieve"
                                    ELSE IF ~r.raised /\ reply.raises THEN "llm"
                                    ELSE "none",
                        !.errors = IF r.raised THEN r.errors
                                   ELSE r.errors \cup q.errors,
                        !.escaped = r.raised,
                        !.retrieved = ~r.raised,
                        !.query = query,
                        !.labels = r.labels,
                        !.picked = r.picked,
                        !.context = r.ret,
                        !.predicts = IF r.raised THEN 0 ELSE q.predicts,
                        !.prompt_context = IF r.raised THEN <<>>
                                           ELSE q.prompt.context]
  /\ UNCHANGED <<chunks, embeddings, faiss_index, last_file_name, indexed_doc>>

\* A script run with no button clicked: nothing is called.
Rerun ==
  /\ run' = NoRun("rerun")
  /\ UNCHANGED <<chunks, embeddings, faiss_index, last_file_name, response,
                 indexed_doc>>

SubmitFaults == 0..2

Next ==
  \/ \E file \in Files, fault \in SubmitFaults : SubmitRun(file, fault)
  \/ \E query \in Queries, fault \in BOOLEAN, reply \in Replies :
       QueryRun(query, fault, reply)
  \/ Rerun

Spec == Init /\ [][Next]_vars

\* ------------------------------------------- store_embeddings called directly
BatchSizes == (1..MaxBatch) \cup {DefaultBatchSize}
Faults == 0..2

\* rag_processor.store_embeddings(text, batch_size) on the processor as the
\* earlier calls left it.
StoreCall(doc, batch_size, fault) ==
  LET st == store_embeddings(Self, TextOf(doc), batch_size, fault)
  IN  /\ chunks' = st.self.chunks
      /\ embeddings' = st.self.embeddings
      /\ faiss_index' = st.self.faiss_index
      /\ last_file_name' = st.self.last_file_name
      /\ run' = [NoRun("store") EXCEPT
                   !.doc = doc,
                   !.batch_size = batch_size,
                   !.stored = TRUE,
                   !.ret_chunks = ~st.raised /\ st.ret.some /\ st.ret.val # <<>>,
                   !.failure = IF st.raised THEN "embed" ELSE "none",
                   !.errors = st.errors,
                   !.escaped = st.raised]
      /\ UNCHANGED <<response, indexed_doc>>

NextStore ==
  \E doc \in StoreDocs, batch_size \in BatchSizes, fault \in Faults :
    StoreCall(doc, batch_size, fault)

SpecStore == Init /\ [][NextStore]_vars

\* ------------------------------------------------------------------ claims
Offsets(text) == {i \in 0..(Len(text) - 1) : i % ChunkSize = 0}
SliceAt(text, i) == SubSeq(text, i + 1, Min(i + ChunkSize, Len(text)))
AllSpace(c) == \A k \in 1..Len(c) : IsSpace(c[k])
Kept(text) == {i \in Offsets(text) : ~AllSpace(SliceAt(text, i))}

\* C1: after store_embeddings(text), the stored chunks are exactly the
\* slices text[i:i+500] at the offsets i that are multiples of 500 and whose
\* slice is not whitespace only, in increasing offset order; every chunk has
\* at most 500 characters and only the slice at the last offset is shorter.
C1_FixedLengthChunks ==
  run.stored =>
    LET text == TextOf(run.doc)
        kept == Kept(text)
    IN  /\ Len(chunks) = Cardinality(kept)
        /\ \A i \in kept :
             chunks[Cardinality({j \in kept : j < i}) + 1] = SliceAt(text, i)
        /\ \A k \in 1..Len(chunks) : Len(chunks[k]) <= ChunkSize
        /\ \A i \in kept :
             Len(SliceAt(text, i)) < ChunkSize => \A j \in Offsets(text) : j <= i

\* A text of several slices, some of them whitespace only and left out, whose
\* last chunk is shorter than the chunk size.
C1_Witness ==
  /\ run.stored
  /\ Len(chunks) >= 2
  /\ Len(chunks) < Cardinality(Offsets(TextOf(run.doc)))
  /\ Len(chunks[Len(chunks)]) < ChunkSize
  /\ Len(chunks[1]) = ChunkSize

\* The positions (0-based) of the indexed chunks, as the query run read them.
Distinct(p) == \A j, k \in 1..Len(p) : j # k => p[j] # p[k]
DistTo(q, c) == Dist(Encode(c), Encode(q))

\* C2: for a query against an index holding n >= 1 chunks, retrieve_context
\* returns the space-joined text of the min(5, n) chunks nearest to the
\* query, nearest first, each indexed chunk at most once.
C2_NearestChunksOnce ==
  (/\ run.kind = "query"
   /\ run.retrieved
   /\ faiss_index.some
   /\ chunks # <<>>
   /\ Len(faiss_index.val) = Len(chunks))
  => LET p == run.picked
         d(j) == DistTo(run.query, chunks[p[j] + 1])
     IN  /\ Len(p) = Min(TopK, Len(chunks))
         /\ \A j \in 1..Len(p) : p[j] \in 0..(Len(chunks) - 1)
         /\ Distinct(p)
         /\ \A j \in 1..(Len(p) - 1) : d(j) <= d(j + 1)
         /\ \A i \in 0..(Len(chunks) - 1) :
              (\A j \in 1..Len(p) : p[j] # i) =>
                \A j \in 1..Len(p) : d(j) <= DistTo(run.query, chunks[i + 1])
         /\ run.context = JoinSpace([j \in 1..Len(p) |-> chunks[p[j] + 1]])

\* C3: a failure of a library or of the endpoint in any stage of a Submit or
\* Query run gives an error message and an empty result, no exception leaves
\* the run, and the remote model is called at most once per query.
C3_ErrorsCaught ==
  /\ ~run.escaped
  /\ run.predicts <= 1
  /\ run.failure # "none" =>
       /\ run.errors # {}
       /\ ~run.ret_chunks
       /\ run.context = <<>>

\* C4: whenever the remote model is called, the context in the prompt is the
\* non-empty text of chunks retrieved from the indexed document, and
\* retrieve_context did not report that no document is indexed.
C4_ContextFromIndexedDocument ==
  run.predicts > 0 =>
    /\ run.prompt_context # <<>>
    /\ ErrNoIndex \notin run.errors
    /\ run.picked # <<>>
    /\ run.prompt_context =
         JoinSpace([j \in 1..Len(run.picked) |-> chunks[run.picked[j] + 1]])

\* C5: a Submit of a file whose size is not strictly less than 2 * 1024 * 1024
\* bytes extracts no text, indexes nothing and leaves the processor unchanged.
C5_OnlyUnder2MBProcessed ==
  [][(run'.kind = "submit" /\ run'.size >= MaxMB * BytesPerMB)
       => (~run'.extracted /\ ~run'.stored /\ UNCHANGED processor)]_vars

\* C6: after a store_embeddings call that returns a non-empty chunk list, for
\* every batch size, the index holds exactly len(chunks) vectors and the
\* vector at position i is the embedding of chunks[i]; nothing of an earlier
\* document remains.
C6_IndexMatchesChunks ==
  (run.stored /\ run.ret_chunks) =>
    /\ chunks # <<>>
    /\ faiss_index.some
    /\ Len(faiss_index.val) = Len(chunks)
    /\ \A i \in 1..Len(chunks) : faiss_index.val[i] = Encode(chunks[i])

\* A call that returned its chunks after several batches, the last of them
\* not full.
C6_Witness ==
  /\ run.stored
  /\ run.ret_chunks
  /\ run.batch_size > 1
  /\ run.batch_size < Len(chunks)
  /\ Len(chunks) % run.batch_size # 0

\* C7: whenever last_file_name is set, faiss_index is not None and chunks is
\* non-empty and holds the chunks of the file named last_file_name; a query
\* run never takes retrieve_context's 'No document is indexed' branch.
C7_NamedFileIsIndexed ==
  /\ last_file_name # NoName =>
       /\ faiss_index.some
       /\ chunks # <<>>
       /\ chunks = NonBlankChunks(Slices(TextOf(indexed_doc)))
  /\ run.kind = "query" => ErrNoIndex \notin run.errors

\* C8: a Submit that extracts but does not index (unsupported or unreadable
\* file, empty or whitespace-only text, embedding failure) leaves chunks,
\* embeddings, faiss_index and last_file_name unchanged.
C8_FailedSubmitKeepsDocument ==
  [][(run'.kind = "submit" /\ run'.extracted /\ ~run'.ret_chunks)
       => UNCHANGED processor]_vars

====
